---- MODULE Spec2Model ----
(***************************************************************************)
(* Session bridge of the realtime transcription gateway.                   *)
(*                                                                         *)
(* The repository holds two copies of the gateway's WebSocket server: the  *)
(* Next.js route (src/app/api/ws/transcriptions/route.ts) and the custom   *)
(* server (src/unnamed/part_000).  They differ only in how the client      *)
(* 'message' handler tells a command from an audio frame; `impl` selects   *)
(* the copy a behaviour runs.  The connector and the token minter are in   *)
(* src/unnamed/part_002.                                                   *)
(*                                                                         *)
(* One action is one run of one event handler (or one resumption of the    *)
(* async start handler after an await): Node runs handlers to completion,  *)
(* so handlers interleave only at the awaits.                              *)
(***************************************************************************)
EXTENDS Integers, Sequences, FiniteSets, TLC

\* ---------------------------------------------------------------- bounds
NumClients == 1      \* client connections the frontend may accept
MaxUp      == 2      \* start commands that get past the start guard
MaxMsgs    == 2      \* client messages delivered to 'message' handlers
MaxUpMsgs  == 1      \* upstream messages delivered to 'message' handlers
MaxSweeps  == 6      \* heartbeat sweeps a connection is followed through
TrafficSweeps == 2     \* heartbeat sweeps followed while a session is in use
MaxRelay   == 2      \* upstream messages in the stream one session relays
NumSessions == 2     \* concurrent sessions when sessions are run side by side

Clients == 1..NumClients
Sessions == 1..NumSessions
Ups     == 1..MaxUp

\* ------------------------------------------------------------- vocabulary
Undefined == "undefined"     \* the JavaScript value undefined

\* typeof / instanceof of the value the ws library hands to the handler
JsTypes == {"string", "Buffer"}
\* payloads of a client frame: the text of the start command, other valid
\* JSON text, and PCM samples (bytes that are not JSON text)
Contents == {"start", "json", "pcm"}

VARIABLES
  impl,        \* "route" or "server": which copy of the gateway runs
  cstate,      \* per client: state of the client socket
  isAlive,     \* per client: client.isAlive
  upstream,    \* per client: client.upstream (0 = undefined)
  owner,       \* per upstream slot: the client whose start handler made it
  ustate,      \* per upstream slot: progress of the start handler / socket
  toClient,    \* per client: messages the gateway sent to the client
  toUp,        \* per upstream: messages the gateway sent upstream
  listeners,   \* per upstream: the event listeners registered on the socket
  nMsgs,       \* number of client messages handled so far
  nUpMsgs,     \* number of upstream messages handled so far
  tIn,         \* translator run on its own: the upstream event given
  tOut,        \* translator run on its own: <<>> or <<the result>>
  sweeps,      \* per client: heartbeat sweeps that found it in wss.clients
  pongAt       \* per client: the value of sweeps at its latest pong

vars == <<impl, cstate, isAlive, upstream, owner, ustate, toClient, toUp,
          listeners, nMsgs, nUpMsgs, tIn, tOut, sweeps, pongAt>>

\* ------------------------------------------------------------ ready states
\* WebSocket.readyState of a client socket.  "DESTROYED" is a socket whose
\* TCP connection was destroyed (terminate(), transport error) and whose
\* 'close' event has not been emitted yet: readyState CLOSING, no more input.
ReadyState(s) ==
  CASE s = "OPEN"      -> "OPEN"
    [] s = "CLOSING"   -> "CLOSING"
    [] s = "DESTROYED" -> "CLOSING"
    [] OTHER           -> "CLOSED"

\* WebSocket.readyState of an upstream slot.  "MINT" is a start handler
\* awaiting mintEphemeralToken (no socket yet), "FAILED" a start handler that
\* ended in its catch block, "ERRORED" a socket that emitted 'error' after it
\* had opened and has not emitted 'close' yet.
UReadyState(s) ==
  CASE s = "CONNECTING" -> "CONNECTING"
    [] s = "OPEN"       -> "OPEN"
    [] s = "CLOSING"    -> "CLOSING"
    [] s = "ERRORED"    -> "CLOSING"
    [] s = "CLOSED"     -> "CLOSED"
    [] OTHER            -> "NONE"

\* err.message of a caught or emitted Error
ErrMessage == "err.message"

\* ------------------------------------------------------ gateway -> client
Connected      == [type |-> "connected"]
Ready          == [ready |-> TRUE]
AlreadyStarted == [error |-> "upstream_already_started"]
SetupFailed(d) == [error |-> "upstream_setup_failed", detail |-> d]
ConnFailed(d)  == [error |-> "openai_connection_failed", detail |-> d]

\* ---------------------------------------------------- gateway -> upstream
Config == [type |-> "transcription_session.update"]

\* Buffer.toString('base64'): an injective encoding of the payload
Base64(p) == <<"base64", p>>

AppendAudio(p) == [type |-> "input_audio_buffer.append", audio |-> Base64(p)]

\* JSON.stringify of an object literal: a key whose value is undefined is
\* left out of the text
JSONStringify(obj) ==
  [k \in {f \in DOMAIN obj : obj[f] # Undefined} |-> obj[k]]

\* send() that delivers whatever the socket's state
ClientSend_Always(tc, c, m) == [tc EXCEPT ![c] = Append(@, m)]

\* ws send(): delivered when the socket is open, otherwise discarded
ClientSend(tc, c, m) ==
  IF ReadyState(cstate[c]) = "OPEN"
  THEN [tc EXCEPT ![c] = Append(@, m)]
  ELSE tc

\* ------------------------------------------------------ upstream events
\* An upstream message: raw text that is not JSON (json = FALSE), or a JSON
\* object with the fields the handler reads (Undefined = field absent).
UpEvent(json, type, delta, transcript, item, errmsg) ==
  [json |-> json, type |-> type, delta |-> delta,
   transcript |-> transcript, item_id |-> item, errmsg |-> errmsg]

DeltaType     == "conversation.item.input_audio_transcription.delta"
CompletedType == "conversation.item.input_audio_transcription.completed"
CommittedType == "input_audio_buffer.committed"
ErrorType     == "error"

\* text that is not JSON
RawEvent == UpEvent(FALSE, Undefined, Undefined, Undefined, Undefined, Undefined)

\* the upstream events a whole session is run with: one for which the
\* handler sends a client message and one for which it sends none (the
\* handler is run on every event of AllUpEvents under TSpec and USpec)
UpEvents ==
  { UpEvent(TRUE, DeltaType, "hel", Undefined, "x1", Undefined),
    UpEvent(TRUE, CommittedType, Undefined, Undefined, "x1", Undefined) }

\* the upstream events the handler body is run on by itself: every
\* combination of type and present, empty or absent fields
AllUpEvents ==
  { UpEvent(TRUE, ty, d, tr, it, em) :
      ty \in {DeltaType, CompletedType, CommittedType, ErrorType,
              "session.created"},
      d \in {Undefined, "", "hel"},
      tr \in {Undefined, "hello"},
      it \in {Undefined, "x1"},
      em \in {Undefined, "", "boom"} } \cup {RawEvent}

\* a || b on strings: the empty string and undefined are falsy
OrElse(a, b) == IF a = Undefined \/ a = "" THEN b ELSE a

\* what client.send(data.toString()) carries: the upstream text itself
Verbatim(m) == [verbatim |-> m]

\* Translate with the completed event reading the delta field and the
\* error detail not defaulted
Translate_WrongFields(m) ==
  IF ~m.json THEN <<Verbatim(m)>>
  ELSE IF m.type = DeltaType
    THEN <<JSONStringify([type |-> "partial", text |-> m.delta,
                          item_id |-> m.item_id])>>
  ELSE IF m.type = CompletedType
    THEN <<JSONStringify([type |-> "final", text |-> m.delta,
                          item_id |-> m.item_id])>>
  ELSE IF m.type = CommittedType
    THEN <<>>
  ELSE IF m.type = ErrorType
    THEN <<JSONStringify([error |-> "openai_error", detail |-> m.errmsg])>>
  ELSE <<Verbatim(m)>>

\* The body of upstream.on('message'): the messages handed to client.send
Translate(m) ==
  IF ~m.json THEN <<Verbatim(m)>>
  ELSE IF m.type = DeltaType
    THEN <<JSONStringify([type |-> "partial", text |-> m.delta,
                          item_id |-> m.item_id])>>
  ELSE IF m.type = CompletedType
    THEN <<JSONStringify([type |-> "final", text |-> m.transcript,
                          item_id |-> m.item_id])>>
  ELSE IF m.type = CommittedType
    THEN <<>>
  ELSE IF m.type = ErrorType
    THEN <<JSONStringify([error |-> "openai_error",
                          detail |-> OrElse(m.errmsg, "Unknown error")])>>
  ELSE <<Verbatim(m)>>

\* --------------------------------------------------------------- initial
Init ==
  /\ impl \in {"route", "server"}
  /\ cstate = [c \in Clients |-> "NONE"]
  /\ isAlive = [c \in Clients |-> FALSE]
  /\ upstream = [c \in Clients |-> 0]
  /\ owner = [u \in Ups |-> 0]
  /\ ustate = [u \in Ups |-> "FREE"]
  /\ toClient = [c \in Clients |-> <<>>]
  /\ toUp = [u \in Ups |-> <<>>]
  /\ listeners = [u \in Ups |-> {}]
  /\ nMsgs = 0
  /\ nUpMsgs = 0
  /\ tIn = RawEvent
  /\ tOut = <<>>
  /\ sweeps = [c \in Clients |-> 0]
  /\ pongAt = [c \in Clients |-> 0]

\* ------------------------------------------------------------ connection
\* Connect that sends no acknowledgment
Connect_NoAck(c) ==
  /\ cstate[c] = "NONE"
  /\ \A b \in DOMAIN cstate : b < c => cstate[b] # "NONE"
  /\ cstate' = [cstate EXCEPT ![c] = "OPEN"]
  /\ isAlive' = [isAlive EXCEPT ![c] = TRUE]
  /\ UNCHANGED <<impl, upstream, owner, ustate, toClient, toUp, listeners,
                 nMsgs, nUpMsgs, tIn, tOut, sweeps, pongAt>>

\* wss.on('connection'): the frontend accepted client c
Connect(c) ==
  /\ cstate[c] = "NONE"
  /\ \A b \in DOMAIN cstate : b < c => cstate[b] # "NONE"   \* in id order
  /\ cstate' = [cstate EXCEPT ![c] = "OPEN"]
  /\ isAlive' = [isAlive EXCEPT ![c] = TRUE]
  /\ toClient' = [toClient EXCEPT ![c] = Append(@, Connected)]
  /\ UNCHANGED <<impl, upstream, owner, ustate, toUp, listeners, nMsgs, nUpMsgs, tIn, tOut, sweeps, pongAt>>

\* Pong that leaves the liveness flag as it is
Pong_NoFlag(c) ==
  /\ cstate[c] \in {"OPEN", "CLOSING"}
  /\ isAlive' = isAlive
  /\ pongAt' = [pongAt EXCEPT ![c] = sweeps[c]]
  /\ UNCHANGED <<impl, cstate, upstream, owner, ustate, toClient, toUp,
                 listeners, nMsgs, nUpMsgs, tIn, tOut, sweeps>>

\* client.on('pong')
Pong(c) ==
  /\ cstate[c] \in {"OPEN", "CLOSING"}
  /\ isAlive' = [isAlive EXCEPT ![c] = TRUE]
  /\ pongAt' = [pongAt EXCEPT ![c] = sweeps[c]]
  /\ UNCHANGED <<impl, cstate, upstream, owner, ustate, toClient, toUp,
                 listeners, nMsgs, nUpMsgs, tIn, tOut, sweeps>>

\* ------------------------------------------------------- client messages
\* client.upstream && client.upstream.readyState === WebSocket.OPEN
UpstreamIsOpen(c) ==
  /\ upstream[c] # 0
  /\ UReadyState(ustate[upstream[c]]) = "OPEN"

\* the slot the next accepted start command runs in
FreeSlot == CHOOSE u \in Ups : ustate[u] = "FREE" /\
                               \A v \in Ups : ustate[v] = "FREE" => u <= v

\* StartBranch without the already-started guard
StartBranch_NoGuard(c) ==
  /\ \E u \in Ups : ustate[u] = "FREE"
  /\ owner' = [owner EXCEPT ![FreeSlot] = c]
  /\ ustate' = [ustate EXCEPT ![FreeSlot] = "MINT"]
  /\ UNCHANGED <<upstream, toClient, toUp, listeners>>

\* StartBranch that rejects with the setup-failure code
StartBranch_RejectsAsSetupFailed(c) ==
  IF UpstreamIsOpen(c)
  THEN /\ toClient' = ClientSend(toClient, c, SetupFailed(ErrMessage))
       /\ UNCHANGED <<upstream, owner, ustate, toUp, listeners>>
  ELSE /\ \E u \in Ups : ustate[u] = "FREE"
       /\ owner' = [owner EXCEPT ![FreeSlot] = c]
       /\ ustate' = [ustate EXCEPT ![FreeSlot] = "MINT"]
       /\ UNCHANGED <<upstream, toClient, toUp, listeners>>

\* msg.action === 'start': reject when an upstream is open, otherwise call
\* mintEphemeralToken and suspend at the await
StartBranch(c) ==
  IF UpstreamIsOpen(c)
  THEN /\ toClient' = ClientSend(toClient, c, AlreadyStarted)
       /\ UNCHANGED <<upstream, owner, ustate, toUp, listeners>>
  ELSE /\ \E u \in Ups : ustate[u] = "FREE"
       /\ owner' = [owner EXCEPT ![FreeSlot] = c]
       /\ ustate' = [ustate EXCEPT ![FreeSlot] = "MINT"]
       /\ UNCHANGED <<upstream, toClient, toUp, listeners>>

\* the binary branch: forward the frame as one append message, or drop it
AudioBranch(c, payload) ==
  /\ toUp' = IF UpstreamIsOpen(c)
             THEN [toUp EXCEPT ![upstream[c]] = Append(@, AppendAudio(payload))]
             ELSE toUp
  /\ UNCHANGED <<upstream, owner, ustate, toClient, listeners>>

\* the bytes of the frame being handled, named by the frame's arrival index
\* so that different frames carry different bytes
FrameBytes == nMsgs + 1

\* a message the handler only logs
DropMessage ==
  UNCHANGED <<upstream, owner, ustate, toClient, toUp, listeners>>

\* JSON.parse(text) returns (does not throw)
ParsesAsJSON(content) == content \in {"start", "json"}

\* OnMessageRoute that treats text which is not the start command as audio
OnMessageRoute_TextAsAudio(c, jsType, content) ==
  IF jsType = "string" /\ ParsesAsJSON(content) /\ content = "start"
  THEN StartBranch(c)
  ELSE AudioBranch(c, FrameBytes)

\* route.ts: a string is parsed as a command, a Buffer is audio
OnMessageRoute(c, jsType, content) ==
  IF jsType = "string"
  THEN IF ParsesAsJSON(content) /\ content = "start"
       THEN StartBranch(c)
       ELSE DropMessage
  ELSE AudioBranch(c, FrameBytes)

\* server copy: every message is parsed first; it is audio only when the
\* parse throws and the message is a Buffer
OnMessageServer(c, jsType, content) ==
  IF ParsesAsJSON(content)
  THEN IF content = "start" THEN StartBranch(c) ELSE DropMessage
  ELSE IF jsType = "Buffer"
       THEN AudioBranch(c, FrameBytes)
       ELSE DropMessage

\* client.on('message') that also marks the client alive
ClientMessage_KeepsAlive(c, jsType, content) ==
  /\ cstate[c] \in {"OPEN", "CLOSING"}
  /\ nMsgs < MaxMsgs
  /\ nMsgs' = nMsgs + 1
  /\ IF impl = "route"
     THEN OnMessageRoute(c, jsType, content)
     ELSE OnMessageServer(c, jsType, content)
  /\ isAlive' = [isAlive EXCEPT ![c] = TRUE]
  /\ UNCHANGED <<impl, cstate, nUpMsgs, tIn, tOut, sweeps, pongAt>>

\* client.on('message')
ClientMessage(c, jsType, content) ==
  /\ cstate[c] \in {"OPEN", "CLOSING"}
  /\ nMsgs < MaxMsgs
  /\ nMsgs' = nMsgs + 1
  /\ IF impl = "route"
     THEN OnMessageRoute(c, jsType, content)
     ELSE OnMessageServer(c, jsType, content)
  /\ UNCHANGED <<impl, cstate, isAlive, nUpMsgs, tIn, tOut, sweeps, pongAt>>

\* ------------------------------------------------- start handler resumes
ConnectorListeners == {"connector.open", "connector.error", "connector.close"}
RouteListeners == {"route.open", "route.message", "route.close", "route.error"}

\* mintEphemeralToken resolved: openOpenAIRealtime creates the socket and
\* registers the connector's listeners; the handler suspends again
MintOk(u) ==
  /\ ustate[u] = "MINT"
  /\ ustate' = [ustate EXCEPT ![u] = "CONNECTING"]
  /\ listeners' = [listeners EXCEPT ![u] = ConnectorListeners]
  /\ UNCHANGED <<impl, cstate, isAlive, upstream, owner, toClient, toUp,
                 nMsgs, nUpMsgs, tIn, tOut, sweeps, pongAt>>

\* MintFail that calls mintEphemeralToken again
MintFail_Retries(u) ==
  /\ ustate[u] = "MINT"
  /\ \E v \in Ups : ustate[v] = "FREE"
  /\ ustate' = [ustate EXCEPT ![u] = "FAILED", ![FreeSlot] = "MINT"]
  /\ owner' = [owner EXCEPT ![FreeSlot] = owner[u]]
  /\ toClient' = ClientSend(toClient, owner[u], SetupFailed(ErrMessage))
  /\ UNCHANGED <<impl, cstate, isAlive, upstream, toUp, listeners,
                 nMsgs, nUpMsgs, tIn, tOut, sweeps, pongAt>>

\* mintEphemeralToken threw: the catch block reports the failure
MintFail(u) ==
  /\ ustate[u] = "MINT"
  /\ ustate' = [ustate EXCEPT ![u] = "FAILED"]
  /\ toClient' = ClientSend(toClient, owner[u], SetupFailed(ErrMessage))
  /\ UNCHANGED <<impl, cstate, isAlive, upstream, owner, toUp, listeners,
                 nMsgs, nUpMsgs, tIn, tOut, sweeps, pongAt>>

\* UpstreamOpen whose connector resolves without sending the configuration
UpstreamOpen_NoConfig(u) ==
  /\ ustate[u] = "CONNECTING"
  /\ ustate' = [ustate EXCEPT ![u] = "OPEN"]
  /\ upstream' = [upstream EXCEPT ![owner[u]] = u]
  /\ listeners' = [listeners EXCEPT ![u] = @ \cup RouteListeners]
  /\ UNCHANGED <<impl, cstate, isAlive, owner, toClient, toUp,
                 nMsgs, nUpMsgs, tIn, tOut, sweeps, pongAt>>

\* The socket emits 'open' (once): the connector's listener sends the
\* configuration and resolves the promise; the start handler resumes in the
\* same turn of the event loop, stores the socket in client.upstream and
\* registers its own listeners.  'open' goes to the listeners registered
\* when it is emitted.
UpstreamOpen(u) ==
  /\ ustate[u] = "CONNECTING"
  /\ LET c == owner[u]
         atEmit == listeners[u]
     IN /\ ustate' = [ustate EXCEPT ![u] = "OPEN"]
        /\ toUp' = [toUp EXCEPT ![u] = Append(@, Config)]
        /\ toClient' = IF "route.open" \in atEmit
                       THEN ClientSend(toClient, c, Ready)
                       ELSE toClient
        /\ upstream' = [upstream EXCEPT ![c] = u]
        /\ listeners' = [listeners EXCEPT ![u] = atEmit \cup RouteListeners]
  /\ UNCHANGED <<impl, cstate, isAlive, owner, nMsgs, nUpMsgs, tIn, tOut, sweeps, pongAt>>

\* UpstreamOpenFail reported the way an error on an open upstream is
UpstreamOpenFail_AsConnFailed(u) ==
  /\ ustate[u] = "CONNECTING"
  /\ ustate' = [ustate EXCEPT ![u] = "FAILED"]
  /\ toClient' = ClientSend(toClient, owner[u], ConnFailed(ErrMessage))
  /\ UNCHANGED <<impl, cstate, isAlive, upstream, owner, toUp, listeners,
                 nMsgs, nUpMsgs, tIn, tOut, sweeps, pongAt>>

\* The socket emits 'error' before it opened: the connector rejects and the
\* catch block of the start handler reports the failure
UpstreamOpenFail(u) ==
  /\ ustate[u] = "CONNECTING"
  /\ ustate' = [ustate EXCEPT ![u] = "FAILED"]
  /\ toClient' = ClientSend(toClient, owner[u], SetupFailed(ErrMessage))
  /\ UNCHANGED <<impl, cstate, isAlive, upstream, owner, toUp, listeners,
                 nMsgs, nUpMsgs, tIn, tOut, sweeps, pongAt>>

\* ------------------------------------------------------- upstream events
\* UpstreamMessage that sends nothing for text that is not JSON
UpstreamMessage_DropsRaw(u, m) ==
  /\ ustate[u] \in {"OPEN", "CLOSING"}
  /\ "route.message" \in listeners[u]
  /\ nUpMsgs < MaxUpMsgs
  /\ nUpMsgs' = nUpMsgs + 1
  /\ toClient' = IF Translate(m) = <<>> \/ ~m.json
                 THEN toClient
                 ELSE ClientSend(toClient, owner[u], Translate(m)[1])
  /\ UNCHANGED <<impl, cstate, isAlive, upstream, owner, ustate, toUp,
                 listeners, nMsgs, tIn, tOut, sweeps, pongAt>>

\* upstream.on('message'): translate and send
UpstreamMessage(u, m) ==
  /\ ustate[u] \in {"OPEN", "CLOSING"}
  /\ "route.message" \in listeners[u]
  /\ nUpMsgs < MaxUpMsgs
  /\ nUpMsgs' = nUpMsgs + 1
  /\ toClient' = IF Translate(m) = <<>>
                 THEN toClient
                 ELSE ClientSend(toClient, owner[u], Translate(m)[1])
  /\ UNCHANGED <<impl, cstate, isAlive, upstream, owner, ustate, toUp,
                 listeners, nMsgs, tIn, tOut, sweeps, pongAt>>

\* UpstreamClose that leaves client.upstream set
UpstreamClose_KeepsRef(u) ==
  /\ ustate[u] \in {"OPEN", "CLOSING", "ERRORED"}
  /\ "route.close" \in listeners[u]
  /\ LET c == owner[u]
         wasOpen == ReadyState(cstate[c]) = "OPEN"
     IN /\ ustate' = [ustate EXCEPT ![u] = "CLOSED"]
        /\ cstate' = IF wasOpen THEN [cstate EXCEPT ![c] = "CLOSING"]
                     ELSE cstate
        /\ upstream' = upstream
  /\ UNCHANGED <<impl, isAlive, owner, toClient, toUp, listeners,
                 nMsgs, nUpMsgs, tIn, tOut, sweeps, pongAt>>

\* upstream.on('close')
UpstreamClose(u) ==
  /\ ustate[u] \in {"OPEN", "CLOSING", "ERRORED"}
  /\ "route.close" \in listeners[u]
  /\ LET c == owner[u]
         wasOpen == ReadyState(cstate[c]) = "OPEN"
     IN /\ ustate' = [ustate EXCEPT ![u] = "CLOSED"]
        /\ cstate' = IF wasOpen THEN [cstate EXCEPT ![c] = "CLOSING"]
                     ELSE cstate
        /\ upstream' = [upstream EXCEPT ![c] = 0]
  /\ UNCHANGED <<impl, isAlive, owner, toClient, toUp, listeners,
                 nMsgs, nUpMsgs, tIn, tOut, sweeps, pongAt>>

\* UpstreamError that closes the client before it sends the error event
UpstreamError_CloseFirst(u) ==
  /\ ustate[u] \in {"OPEN", "CLOSING"}
  /\ "route.error" \in listeners[u]
  /\ LET c == owner[u]
         wasOpen == ReadyState(cstate[c]) = "OPEN"
     IN /\ ustate' = [ustate EXCEPT ![u] = "ERRORED"]
        /\ toClient' = toClient
        /\ cstate' = IF wasOpen THEN [cstate EXCEPT ![c] = "CLOSING"]
                     ELSE cstate
        /\ upstream' = [upstream EXCEPT ![c] = 0]
  /\ UNCHANGED <<impl, isAlive, owner, toUp, listeners,
                 nMsgs, nUpMsgs, tIn, tOut, sweeps, pongAt>>

\* UpstreamError that reports and closes whatever the client's state
UpstreamError_Unguarded(u) ==
  /\ ustate[u] \in {"OPEN", "CLOSING"}
  /\ "route.error" \in listeners[u]
  /\ LET c == owner[u]
     IN /\ ustate' = [ustate EXCEPT ![u] = "ERRORED"]
        /\ toClient' = [toClient EXCEPT ![c] = Append(@, ConnFailed(ErrMessage))]
        /\ cstate' = IF cstate[c] \in {"OPEN", "CLOSING"}
                     THEN [cstate EXCEPT ![c] = "CLOSING"]
                     ELSE cstate
        /\ upstream' = [upstream EXCEPT ![c] = 0]
  /\ UNCHANGED <<impl, isAlive, owner, toUp, listeners,
                 nMsgs, nUpMsgs, tIn, tOut, sweeps, pongAt>>

\* upstream.on('error') on a socket that had opened
UpstreamError(u) ==
  /\ ustate[u] \in {"OPEN", "CLOSING"}
  /\ "route.error" \in listeners[u]
  /\ LET c == owner[u]
         wasOpen == ReadyState(cstate[c]) = "OPEN"
     IN /\ ustate' = [ustate EXCEPT ![u] = "ERRORED"]
        /\ toClient' = ClientSend(toClient, c, ConnFailed(ErrMessage))
        /\ cstate' = IF wasOpen THEN [cstate EXCEPT ![c] = "CLOSING"]
                     ELSE cstate
        /\ upstream' = [upstream EXCEPT ![c] = 0]
  /\ UNCHANGED <<impl, isAlive, owner, toUp, listeners,
                 nMsgs, nUpMsgs, tIn, tOut, sweeps, pongAt>>

\* --------------------------------------------------------- client events
\* the body shared by client.on('close') and client.on('error'):
\* client.upstream.close() when the upstream is open
CloseUpstreamOf(c) ==
  IF UpstreamIsOpen(c)
  THEN [ustate EXCEPT ![upstream[c]] = "CLOSING"]
  ELSE ustate

\* ClientClose that closes every open upstream of the server
ClientClose_ClosesAll(c) ==
  /\ cstate[c] \in {"OPEN", "CLOSING", "DESTROYED"}
  /\ cstate' = [cstate EXCEPT ![c] = "CLOSED"]
  /\ ustate' = [u \in DOMAIN ustate |->
                 IF ustate[u] = "OPEN" THEN "CLOSING" ELSE ustate[u]]
  /\ UNCHANGED <<impl, isAlive, upstream, owner, toClient, toUp, listeners,
                 nMsgs, nUpMsgs, tIn, tOut, sweeps, pongAt>>

\* client.on('close')
ClientClose(c) ==
  /\ cstate[c] \in {"OPEN", "CLOSING", "DESTROYED"}
  /\ cstate' = [cstate EXCEPT ![c] = "CLOSED"]
  /\ ustate' = CloseUpstreamOf(c)
  /\ UNCHANGED <<impl, isAlive, upstream, owner, toClient, toUp, listeners,
                 nMsgs, nUpMsgs, tIn, tOut, sweeps, pongAt>>

\* client.on('error'): the library has left the OPEN state before it emits
ClientError(c) ==
  /\ cstate[c] \in {"OPEN", "CLOSING"}
  /\ cstate' = [cstate EXCEPT ![c] = "DESTROYED"]
  /\ ustate' = CloseUpstreamOf(c)
  /\ UNCHANGED <<impl, isAlive, upstream, owner, toClient, toUp, listeners,
                 nMsgs, nUpMsgs, tIn, tOut, sweeps, pongAt>>

\* -------------------------------------------------------------- heartbeat
\* wss.clients: sockets accepted and not yet closed
InClients(c) == cstate[c] \in {"OPEN", "CLOSING", "DESTROYED"}

\* client.ping(): a ping frame, discarded when the socket is not open
Ping == [ping |-> TRUE]

\* Heartbeat that pings every client and terminates none
Heartbeat_NeverTerminates ==
  /\ \E c \in Clients : InClients(c)
  /\ \A c \in Clients : InClients(c) => sweeps[c] < MaxSweeps
  /\ cstate' = cstate
  /\ isAlive' = [c \in Clients |->
                  IF InClients(c) THEN FALSE ELSE isAlive[c]]
  /\ toClient' = [c \in Clients |->
                   IF InClients(c) /\ ReadyState(cstate[c]) = "OPEN"
                   THEN Append(toClient[c], Ping)
                   ELSE toClient[c]]
  /\ sweeps' = [c \in Clients |->
                 IF InClients(c) THEN sweeps[c] + 1 ELSE sweeps[c]]
  /\ UNCHANGED <<impl, upstream, owner, ustate, toUp, listeners,
                 nMsgs, nUpMsgs, tIn, tOut, pongAt>>

\* Heartbeat that pings every client it visits, then terminates the silent
Heartbeat_PingsDoomed ==
  /\ \E c \in Clients : InClients(c)
  /\ \A c \in Clients : InClients(c) => sweeps[c] < MaxSweeps
  /\ cstate' = [c \in Clients |->
                  IF InClients(c) /\ isAlive[c] = FALSE
                  THEN "DESTROYED"
                  ELSE cstate[c]]
  /\ isAlive' = [c \in Clients |->
                  IF InClients(c) THEN FALSE ELSE isAlive[c]]
  /\ toClient' = [c \in Clients |->
                   IF InClients(c) /\ ReadyState(cstate[c]) = "OPEN"
                   THEN Append(toClient[c], Ping)
                   ELSE toClient[c]]
  /\ sweeps' = [c \in Clients |->
                 IF InClients(c) THEN sweeps[c] + 1 ELSE sweeps[c]]
  /\ UNCHANGED <<impl, upstream, owner, ustate, toUp, listeners,
                 nMsgs, nUpMsgs, tIn, tOut, pongAt>>

\* one run of the setInterval callback over all of wss.clients
Heartbeat ==
  /\ \E c \in Clients : InClients(c)
  /\ \A c \in Clients : InClients(c) => sweeps[c] < MaxSweeps
  /\ cstate' = [c \in Clients |->
                  IF InClients(c) /\ isAlive[c] = FALSE
                  THEN "DESTROYED"
                  ELSE cstate[c]]
  /\ isAlive' = [c \in Clients |->
                  IF InClients(c) /\ isAlive[c] # FALSE
                  THEN FALSE
                  ELSE isAlive[c]]
  /\ toClient' = [c \in Clients |->
                   IF InClients(c) /\ isAlive[c] # FALSE
                      /\ ReadyState(cstate[c]) = "OPEN"
                   THEN Append(toClient[c], Ping)
                   ELSE toClient[c]]
  /\ sweeps' = [c \in Clients |->
                 IF InClients(c) THEN sweeps[c] + 1 ELSE sweeps[c]]
  /\ UNCHANGED <<impl, upstream, owner, ustate, toUp, listeners,
                 nMsgs, nUpMsgs, tIn, tOut, pongAt>>

\* What a session sees of the heartbeat: the sweep calls client.terminate()
\* on a client whose flag it finds false.  No session handler reads or
\* writes the flag except 'pong', so for the session a termination can come
\* at any time.
Terminate(c) ==
  /\ InClients(c)
  /\ cstate[c] # "DESTROYED"
  /\ cstate' = [cstate EXCEPT ![c] = "DESTROYED"]
  /\ UNCHANGED <<impl, isAlive, upstream, owner, ustate, toClient, toUp,
                 listeners, nMsgs, nUpMsgs, tIn, tOut, sweeps, pongAt>>

\* ---------------------------------------------------------- specification
\* the session bridge: the handlers of wss.on('connection') and the start
\* handler's resumptions, with the heartbeat seen as Terminate
Next ==
  \/ \E c \in Clients : Connect(c)
  \/ \E c \in Clients, t \in JsTypes, k \in Contents : ClientMessage(c, t, k)
  \/ \E u \in Ups : MintOk(u)
  \/ \E u \in Ups : MintFail(u)
  \/ \E u \in Ups : UpstreamOpen(u)
  \/ \E u \in Ups : UpstreamOpenFail(u)
  \/ \E u \in Ups, m \in UpEvents : UpstreamMessage(u, m)
  \/ \E u \in Ups : UpstreamClose(u)
  \/ \E u \in Ups : UpstreamError(u)
  \/ \E c \in Clients : ClientClose(c)
  \/ \E c \in Clients : ClientError(c)
  \/ \E c \in Clients : Terminate(c)

Spec == Init /\ [][Next]_vars

\* The event loop runs every completion it has pending: an awaited mint and
\* an awaited upstream open are eventually resumed.
FairSpec ==
  /\ Spec
  /\ WF_vars(\E u \in Ups : MintOk(u) \/ MintFail(u))
  /\ WF_vars(\E u \in Ups : UpstreamOpen(u) \/ UpstreamOpenFail(u))

\* the liveness monitor by itself: accepted clients, their pongs, the
\* sweeps, and the 'close' event that follows a termination
MonitorNext ==
  \/ \E c \in Clients : Connect(c)
  \/ \E c \in Clients : Pong(c)
  \/ \E c \in Clients : ClientClose(c)
  \/ Heartbeat

MonitorSpec == Init /\ [][MonitorNext]_vars

\* the liveness monitor next to a session in use: the monitor's handlers
\* together with the client's messages and the setup they start
TrafficNext ==
  \/ \E c \in Clients : Connect(c)
  \/ \E c \in Clients : Pong(c)
  \/ \E c \in Clients : ClientClose(c)
  \/ (\A c \in Clients : sweeps[c] < TrafficSweeps) /\ Heartbeat
  \/ \E c \in Clients, t \in JsTypes, k \in Contents : ClientMessage(c, t, k)
  \/ \E u \in Ups : MintOk(u)
  \/ \E u \in Ups : UpstreamOpen(u)

TrafficSpec == Init /\ [][TrafficNext]_vars

\* --------------------------------------------- sessions side by side
\* Several clients connected to one server, each running its own session:
\* the handlers that read or write a socket's state, for every client.
SInit ==
  /\ impl \in {"route", "server"}
  /\ cstate = [c \in Sessions |-> "NONE"]
  /\ isAlive = [c \in Sessions |-> FALSE]
  /\ upstream = [c \in Sessions |-> 0]
  /\ owner = [u \in Ups |-> 0]
  /\ ustate = [u \in Ups |-> "FREE"]
  /\ toClient = [c \in Sessions |-> <<>>]
  /\ toUp = [u \in Ups |-> <<>>]
  /\ listeners = [u \in Ups |-> {}]
  /\ nMsgs = 0
  /\ nUpMsgs = 0
  /\ tIn = RawEvent
  /\ tOut = <<>>
  /\ sweeps = [c \in Sessions |-> 0]
  /\ pongAt = [c \in Sessions |-> 0]

SNext ==
  \/ \E c \in Sessions : Connect(c)
  \/ \E c \in Sessions, t \in JsTypes, k \in Contents : ClientMessage(c, t, k)
  \/ \E u \in Ups : MintOk(u)
  \/ \E u \in Ups : MintFail(u)
  \/ \E u \in Ups : UpstreamOpen(u)
  \/ \E u \in Ups : UpstreamOpenFail(u)
  \/ \E u \in Ups : UpstreamClose(u)
  \/ \E u \in Ups : UpstreamError(u)
  \/ \E c \in Sessions : ClientClose(c)
  \/ \E c \in Sessions : ClientError(c)
  \/ \E c \in Sessions : Terminate(c)

SessionsSpec == SInit /\ [][SNext]_vars

\* ------------------------------------------- the translator by itself
\* the body of upstream.on('message') applied to one upstream event
TInit ==
  /\ impl = "route"
  /\ cstate = [c \in Clients |-> "NONE"]
  /\ isAlive = [c \in Clients |-> FALSE]
  /\ upstream = [c \in Clients |-> 0]
  /\ owner = [u \in Ups |-> 0]
  /\ ustate = [u \in Ups |-> "FREE"]
  /\ toClient = [c \in Clients |-> <<>>]
  /\ toUp = [u \in Ups |-> <<>>]
  /\ listeners = [u \in Ups |-> {}]
  /\ nMsgs = 0
  /\ nUpMsgs = 0
  /\ tIn \in AllUpEvents
  /\ tOut = <<>>
  /\ sweeps = [c \in Clients |-> 0]
  /\ pongAt = [c \in Clients |-> 0]

TranslateStep ==
  /\ tOut = <<>>
  /\ tOut' = <<Translate(tIn)>>
  /\ UNCHANGED <<impl, cstate, isAlive, upstream, owner, ustate, toClient,
                 toUp, listeners, nMsgs, nUpMsgs, tIn, sweeps, pongAt>>

TNext == TranslateStep

TSpec == TInit /\ [][TNext]_vars

\* ------------------------- one upstream message on an established session
\* The session after connection, start command, mint and upstream open, with
\* the client open or already terminated by the heartbeat; the upstream then
\* delivers one message, any of AllUpEvents.
UInit ==
  /\ impl \in {"route", "server"}
  /\ cstate \in [Clients -> {"OPEN", "DESTROYED"}]
  /\ isAlive = [c \in Clients |-> TRUE]
  /\ upstream = [c \in Clients |-> c]
  /\ owner = [u \in Ups |-> IF u \in Clients THEN u ELSE 0]
  /\ ustate = [u \in Ups |-> IF u \in Clients THEN "OPEN" ELSE "FREE"]
  /\ toUp = [u \in Ups |-> IF u \in Clients THEN <<Config>> ELSE <<>>]
  /\ listeners = [u \in Ups |->
                    IF u \in Clients
                    THEN ConnectorListeners \cup RouteListeners
                    ELSE {}]
  /\ toClient = [c \in Clients |-> <<Connected>>]
  /\ nMsgs = NumClients
  /\ nUpMsgs = 0
  /\ tIn \in AllUpEvents
  /\ tOut = <<>>
  /\ sweeps = [c \in Clients |-> 0]
  /\ pongAt = [c \in Clients |-> 0]

UNext == \E u \in Ups : UpstreamMessage(u, tIn)

USpec == UInit /\ [][UNext]_vars

\* ------------------------------ a stream of upstream messages on a session
\* the events of the stream: a partial, a final, an error, and one for
\* which the handler sends nothing
RelayEvents ==
  { UpEvent(TRUE, DeltaType, "hel", Undefined, "x1", Undefined),
    UpEvent(TRUE, CompletedType, Undefined, "hello", "x1", Undefined),
    UpEvent(TRUE, ErrorType, Undefined, Undefined, Undefined, "boom"),
    UpEvent(TRUE, CommittedType, Undefined, Undefined, "x1", Undefined) }

\* One client's session after connection, start command, mint and upstream
\* open; tIn is the stream its upstream emits, in the order of emission, and
\* nUpMsgs the number of its messages the 'message' handler has been run on.
RInit ==
  /\ impl \in {"route", "server"}
  /\ \E s \in Clients :
       /\ cstate = [c \in Clients |-> IF c = s THEN "OPEN" ELSE "NONE"]
       /\ isAlive = [c \in Clients |-> c = s]
       /\ upstream = [c \in Clients |-> IF c = s THEN s ELSE 0]
       /\ owner = [u \in Ups |-> IF u = s THEN s ELSE 0]
       /\ ustate = [u \in Ups |-> IF u = s THEN "OPEN" ELSE "FREE"]
       /\ toUp = [u \in Ups |-> IF u = s THEN <<Config>> ELSE <<>>]
       /\ listeners = [u \in Ups |->
                         IF u = s
                         THEN ConnectorListeners \cup RouteListeners
                         ELSE {}]
       /\ toClient = [c \in Clients |-> IF c = s THEN <<Connected>> ELSE <<>>]
  /\ nMsgs = 1
  /\ nUpMsgs = 0
  /\ tIn \in [1..MaxRelay -> RelayEvents]
  /\ tOut = <<>>
  /\ sweeps = [c \in Clients |-> 0]
  /\ pongAt = [c \in Clients |-> 0]

\* RelayMessage that puts the newest client message before the older ones
RelayMessage_NewestFirst(u) ==
  /\ ustate[u] \in {"OPEN", "CLOSING"}
  /\ "route.message" \in listeners[u]
  /\ nUpMsgs < Len(tIn)
  /\ nUpMsgs' = nUpMsgs + 1
  /\ LET m == tIn[nUpMsgs + 1]
         c == owner[u]
     IN toClient' = IF Translate(m) = <<>> \/ ReadyState(cstate[c]) # "OPEN"
                    THEN toClient
                    ELSE [toClient EXCEPT
                            ![c] = <<Head(@)>> \o Translate(m) \o Tail(@)]
  /\ UNCHANGED <<impl, cstate, isAlive, upstream, owner, ustate, toUp,
                 listeners, nMsgs, tIn, tOut, sweeps, pongAt>>

\* upstream.on('message') run on the next message of the stream: the
\* library emits 'message' once per message, in the order of arrival
RelayMessage(u) ==
  /\ ustate[u] \in {"OPEN", "CLOSING"}
  /\ "route.message" \in listeners[u]
  /\ nUpMsgs < Len(tIn)
  /\ nUpMsgs' = nUpMsgs + 1
  /\ LET m == tIn[nUpMsgs + 1]
     IN toClient' = IF Translate(m) = <<>>
                    THEN toClient
                    ELSE ClientSend(toClient, owner[u], Translate(m)[1])
  /\ UNCHANGED <<impl, cstate, isAlive, upstream, owner, ustate, toUp,
                 listeners, nMsgs, tIn, tOut, sweeps, pongAt>>

RelayNext ==
  \/ \E u \in Ups : RelayMessage(u)
  \/ \E c \in Clients : Terminate(c)
  \/ \E c \in Clients : ClientClose(c)

RelaySpec == RInit /\ [][RelayNext]_vars

TypeOK ==
  /\ impl \in {"route", "server"}
  /\ cstate \in [Clients -> {"NONE", "OPEN", "CLOSING", "DESTROYED", "CLOSED"}]
  /\ isAlive \in [Clients -> BOOLEAN]
  /\ upstream \in [Clients -> Ups \cup {0}]
  /\ owner \in [Ups -> Clients \cup {0}]
  /\ ustate \in [Ups -> {"FREE", "MINT", "CONNECTING", "OPEN", "CLOSING",
                         "ERRORED", "CLOSED", "FAILED"}]
  /\ nMsgs \in 0..MaxMsgs
  /\ nUpMsgs \in 0..MaxUpMsgs
  /\ sweeps \in [Clients -> 0..MaxSweeps]
  /\ pongAt \in [Clients -> 0..MaxSweeps]

\* ================================================================ claims
Sent(c, m) == \E i \in 1..Len(toClient[c]) : toClient[c][i] = m

SentUp(u, m) == \E i \in 1..Len(toUp[u]) : toUp[u][i] = m

IsAppend(m) == m.type = "input_audio_buffer.append"

Forwarded(u) == \E i \in 1..Len(toUp[u]) : IsAppend(toUp[u][i])

UpsOf(c) == {u \in Ups : owner[u] = c}

\* C1: a client session never has two upstream connections created for it
\* that are open at the same time.
C1_AtMostOneLiveUpstream ==
  \A c \in Clients :
    Cardinality({u \in UpsOf(c) : UReadyState(ustate[u]) = "OPEN"}) <= 1

\* C2: while a setup of the session is suspended at the mint or at the
\* upstream open, a second start command starts no second setup: at most
\* one setup per client is in flight.
C2_OneSetupInFlight ==
  \A c \in Clients :
    Cardinality({u \in UpsOf(c) : ustate[u] \in {"MINT", "CONNECTING"}}) <= 1

\* C3: once the client's close handler has run, no upstream connection
\* created for that client is open (none is kept open, none is opened later).
C3_NoUpstreamAfterClientClose ==
  \A c \in Clients : \A u \in UpsOf(c) :
    cstate[c] = "CLOSED" => UReadyState(ustate[u]) # "OPEN"

\* C4: when an upstream connection of a session emits 'close' or 'error'
\* while the client is open, that handler run leaves the client no longer
\* open and client.upstream cleared; hence an open client never refers to an
\* upstream that is not open.
C4_UpstreamEndClosesClient ==
  /\ [](\A c \in Clients :
          cstate[c] = "OPEN" /\ upstream[c] # 0
            => UReadyState(ustate[upstream[c]]) = "OPEN")
  /\ [][\A u \in Ups :
          (UpstreamClose(u) \/ UpstreamError(u)) /\ cstate[owner[u]] = "OPEN"
            => /\ ReadyState(cstate'[owner[u]]) # "OPEN"
               /\ upstream'[owner[u]] = 0]_vars

\* C4 witness: an upstream handler has closed a client that was open
C4_Witness ==
  \E c \in Clients :
    /\ cstate[c] = "CLOSING"
    /\ upstream[c] = 0
    /\ \E u \in UpsOf(c) : ustate[u] \in {"CLOSED", "ERRORED"}

\* the upstream of c is open and its configuration has been sent
Configured(c) ==
  \E u \in UpsOf(c) : ustate[u] = "OPEN" /\ SentUp(u, Config)

\* C5: after the upstream of a start command is open and configured, the
\* client is eventually sent {ready:true}, unless its connection stops
\* being open.
C5_ReadyEventually ==
  \A c \in Clients :
    [](Configured(c) => <>(Sent(c, Ready) \/ cstate[c] # "OPEN"))

\* C6: an append message is sent upstream only for a client that has been
\* sent {ready:true}.
C6_NoAudioBeforeReady ==
  \A u \in Ups : Forwarded(u) => Sent(owner[u], Ready)

\* everything but the message counter
sessionVars == <<impl, cstate, isAlive, upstream, owner, ustate, toClient,
                 toUp, listeners, nUpMsgs, tIn, tOut, sweeps, pongAt>>

\* C7: a Buffer frame is forwarded only when the session's upstream is open
\* at that moment, and then as one append message; at any other moment it
\* changes nothing; appends are produced by no other step.
C7_AudioOnlyWhenOpen ==
  /\ [][\A c \in Clients, k \in Contents :
          ClientMessage(c, "Buffer", k)
            => IF UpstreamIsOpen(c)
               THEN toUp' = toUp \/
                    toUp' = [toUp EXCEPT ![upstream[c]] =
                                 Append(@, AppendAudio(nMsgs + 1))]
               ELSE UNCHANGED sessionVars]_vars
  /\ [][\A u \in Ups :
          Len(toUp'[u]) > Len(toUp[u]) /\ IsAppend(toUp'[u][Len(toUp'[u])])
            => nMsgs' = nMsgs + 1]_vars

\* a message the gateway reads as the start command
IsStartCommand(jsType, content) ==
  content = "start" /\ (jsType = "string" \/ impl = "server")

\* C8: a start command received by an open client whose upstream is open
\* sends {error:"upstream_already_started"} and changes nothing else.
C8_SecondStartRejected ==
  [][\A c \in Clients, t \in JsTypes :
       /\ ClientMessage(c, t, "start")
       /\ IsStartCommand(t, "start")
       /\ UpstreamIsOpen(c)
       /\ cstate[c] = "OPEN"
       => /\ toClient' = [toClient EXCEPT ![c] = Append(@, AlreadyStarted)]
          /\ UNCHANGED <<impl, cstate, isAlive, upstream, owner, ustate,
                         toUp, listeners, nUpMsgs, tIn, tOut, sweeps, pongAt>>]_vars

\* C8 witness: a start command was rejected and the upstream is still open
C8_Witness ==
  \E c \in Clients :
    /\ Sent(c, AlreadyStarted)
    /\ cstate[c] = "OPEN"
    /\ UpstreamIsOpen(c)

\* C9: when the mint or the upstream open of a start command fails while
\* the client is open, the client is sent one upstream_setup_failed event,
\* stays open, and the session owns no upstream afterwards, so that a later
\* start command is not rejected.
C9_SetupFailureReturnsToIdle ==
  [][\A u \in Ups :
       (MintFail(u) \/ UpstreamOpenFail(u)) /\ cstate[owner[u]] = "OPEN"
       => /\ toClient' = [toClient EXCEPT ![owner[u]] =
                                Append(@, SetupFailed(ErrMessage))]
          /\ cstate' = cstate
          /\ upstream'[owner[u]] = 0]_vars

\* the client event the translation table gives for an upstream event of
\* one of the four known types
C10_Expected(m) ==
  CASE m.type = DeltaType ->
         <<JSONStringify([type |-> "partial", text |-> m.delta,
                          item_id |-> m.item_id])>>
    [] m.type = CompletedType ->
         <<JSONStringify([type |-> "final", text |-> m.transcript,
                          item_id |-> m.item_id])>>
    [] m.type = CommittedType -> <<>>
    [] m.type = ErrorType ->
         <<[error |-> "openai_error",
            detail |-> IF m.errmsg \in {Undefined, ""}
                       THEN "Unknown error" ELSE m.errmsg]>>

KnownTypes == {DeltaType, CompletedType, CommittedType, ErrorType}

\* C10: the handler body run on a JSON event of one of the four known types
\* hands client.send exactly the client event of the translation table:
\* partial with the delta, final with the transcript, nothing for
\* input_audio_buffer.committed, openai_error with the upstream message or
\* "Unknown error".
C10_Translation ==
  (Len(tOut) = 1 /\ tIn.json /\ tIn.type \in KnownTypes)
    => tOut[1] = C10_Expected(tIn)

\* C10 witness: an error event without a message has been translated
C10_Witness ==
  /\ Len(tOut) = 1
  /\ tIn.json /\ tIn.type = ErrorType /\ tIn.errmsg = Undefined
  /\ tOut[1] = <<[error |-> "openai_error", detail |-> "Unknown error"]>>

\* C11: an upstream message, whatever it is, makes the handler send at most
\* one message to the client and leaves client.upstream, the upstream socket
\* and the client connection as they were; a message that is not JSON, or
\* whose type is none of the four known types, is sent to an open client as
\* the text it arrived as.
C11_UnknownForwardedVerbatim ==
  [][\A u \in Ups :
       UpstreamMessage(u, tIn)
       => /\ upstream' = upstream /\ cstate' = cstate /\ ustate' = ustate
          /\ \A c \in Clients : c # owner[u] => toClient'[c] = toClient[c]
          /\ Len(toClient'[owner[u]]) <= Len(toClient[owner[u]]) + 1
          /\ (cstate[owner[u]] = "OPEN" /\
                (~tIn.json \/ tIn.type \notin KnownTypes))
               => toClient'[owner[u]] =
                    Append(toClient[owner[u]], Verbatim(tIn))]_vars

\* C11 witness: a JSON event of an unknown type has been forwarded as it is
C11_Witness ==
  \E c \in Clients :
    /\ tIn.json /\ tIn.type = "session.created"
    /\ nUpMsgs = 1
    /\ toClient[c] = <<Connected, Verbatim(tIn)>>

\* C12: a client that is open and has sent no pong since it connected is,
\* at the first sweep that finds it, left open, marked not alive and sent a
\* ping, and at the second sweep terminated.
C12_SilentClientReapedAtSecondSweep ==
  [][\A c \in Clients :
       Heartbeat /\ cstate[c] = "OPEN" /\ pongAt[c] = 0
       => IF sweeps[c] = 0
          THEN /\ cstate'[c] = "OPEN"
               /\ isAlive'[c] = FALSE
               /\ toClient'[c] = Append(toClient[c], Ping)
          ELSE /\ sweeps[c] = 1
               /\ cstate'[c] = "DESTROYED"]_vars

\* C12 witness: a client that never sent a pong, terminated at its second
\* sweep
C12_Witness ==
  \E c \in Clients :
    /\ cstate[c] = "DESTROYED"
    /\ sweeps[c] = 2
    /\ pongAt[c] = 0
    /\ Sent(c, Ping)

\* C13: a sweep leaves open every open client that has sent a pong since
\* the previous sweep (or has not been swept yet), however many sweeps came
\* before.
C13_ResponsiveClientSurvives ==
  [][\A c \in Clients :
       Heartbeat /\ cstate[c] = "OPEN" /\ pongAt[c] = sweeps[c]
       => cstate'[c] = "OPEN"]_vars

\* C13 witness: a client that answered its pings is open after MaxSweeps
\* sweeps
C13_Witness ==
  \E c \in Clients :
    /\ cstate[c] = "OPEN"
    /\ sweeps[c] = MaxSweeps
    /\ pongAt[c] = MaxSweeps - 1

\* C14: on every upstream connection the first message the gateway sent is
\* the configuration, and a socket is stored in client.upstream only after
\* its configuration was sent; so no append precedes the configuration.
C14_ConfigFirst ==
  /\ \A u \in Ups : toUp[u] # <<>> => toUp[u][1] = Config
  /\ \A c \in Clients : upstream[c] # 0 => toUp[upstream[c]] # <<>>

\* C14 witness: an upstream was sent its configuration and then an append
C14_Witness ==
  \E u \in Ups :
    /\ Len(toUp[u]) >= 2
    /\ toUp[u][1] = Config
    /\ IsAppend(toUp[u][2])

\* C15: when the upstream socket errors before it opened, the setup ends
\* failed for good, client.upstream is not assigned, and an open client is
\* sent upstream_setup_failed (not openai_connection_failed); a failed setup
\* is never the session's upstream.
C15_OpenFailureRejects ==
  /\ [](\A u \in Ups : \A c \in Clients :
          ustate[u] = "FAILED" => upstream[c] # u)
  /\ [][\A u \in Ups :
          ustate[u] = "CONNECTING" /\ UpstreamOpenFail(u)
          => /\ ustate'[u] = "FAILED"
             /\ upstream' = upstream
             /\ cstate' = cstate
             /\ cstate[owner[u]] = "OPEN"
                  => toClient' = [toClient EXCEPT ![owner[u]] =
                                    Append(@, SetupFailed(ErrMessage))]]_vars
  /\ [][\A u \in Ups : ustate[u] = "FAILED" => ustate'[u] = "FAILED"]_vars

\* C15 witness: an upstream open failed and the open client was told so
C15_Witness ==
  \E u \in Ups :
    /\ ustate[u] = "FAILED"
    /\ listeners[u] = ConnectorListeners
    /\ cstate[owner[u]] = "OPEN"
    /\ upstream[owner[u]] = 0
    /\ toClient[owner[u]] = <<Connected, SetupFailed(ErrMessage)>>

\* C16: a text message that is not the start command (text that is not
\* JSON, or JSON without action "start") changes nothing: nothing is sent
\* upstream or to the client and no session state changes.
C16_OtherMessagesDropped ==
  [][\A c \in Clients, k \in Contents \ {"start"} :
       nMsgs' # nMsgs /\ ClientMessage(c, "string", k)
       => UNCHANGED sessionVars]_vars

\* C16 witness: with the upstream open, a second message was handled and
\* left no trace
C16_Witness ==
  \E c \in Clients :
    /\ cstate[c] = "OPEN"
    /\ UpstreamIsOpen(c)
    /\ nMsgs = 2
    /\ toUp[upstream[c]] = <<Config>>
    /\ toClient[c] = <<Connected>>
    /\ \A u \in Ups : u # upstream[c] => ustate[u] = "FREE"

\* C17: an error of an opened upstream, with the client open, sends the
\* client openai_connection_failed and then closes it; a close of an
\* upstream, with the client open, closes the client and sends it nothing.
C17_ErrorReportedCloseSilent ==
  /\ [][\A u \in Ups :
          ustate[u] \in {"OPEN", "CLOSING"} /\ cstate[owner[u]] = "OPEN"
          /\ UpstreamError(u)
          => /\ toClient' = [toClient EXCEPT ![owner[u]] =
                                Append(@, ConnFailed(ErrMessage))]
             /\ cstate'[owner[u]] = "CLOSING"]_vars
  /\ [][\A u \in Ups :
          ustate'[u] = "CLOSED" /\ cstate[owner[u]] = "OPEN"
          /\ UpstreamClose(u)
          => /\ toClient' = toClient
             /\ cstate'[owner[u]] = "CLOSING"]_vars

\* C17 witness: the client was sent openai_connection_failed and closed
C17_Witness ==
  \E c \in Clients :
    /\ cstate[c] = "CLOSING"
    /\ toClient[c] = <<Connected, ConnFailed(ErrMessage)>>

\* setups begun so far
Attempts == {u \in Ups : ustate[u] # "FREE"}

\* C19: a setup begins only in the step that handles a start command of its
\* client, one setup per command; a setup mints once and opens once, and a
\* failed setup stays failed: nothing is attempted again without a new start
\* command.
C19_NoAutomaticRetry ==
  /\ [](Cardinality(Attempts) <= nMsgs)
  /\ [][\A u \in Ups :
          /\ (ustate[u] = "FREE" /\ ustate'[u] # "FREE")
               => /\ ustate'[u] = "MINT"
                  /\ nMsgs' = nMsgs + 1
                  /\ \E t \in JsTypes :
                       /\ IsStartCommand(t, "start")
                       /\ ClientMessage(owner'[u], t, "start")
                  /\ \A v \in Ups : v # u => ustate'[v] = ustate[v]
          /\ ustate'[u] = "MINT" => ustate[u] \in {"FREE", "MINT"}
          /\ ustate'[u] = "CONNECTING" => ustate[u] \in {"MINT", "CONNECTING"}
          /\ ustate[u] = "FAILED" => ustate'[u] = "FAILED"]_vars

\* C19 witness: a setup failed, the client is still open, a later message
\* was handled and no second setup was begun
C19_Witness ==
  \E c \in Clients :
    /\ cstate[c] = "OPEN"
    /\ nMsgs = 2
    /\ Cardinality(Attempts) = 1
    /\ \A u \in Attempts : ustate[u] = "FAILED" /\ owner[u] = c

\* the payloads of the appends sent on upstream u, in the order sent
RECURSIVE Payloads(_)
Payloads(q) ==
  IF q = <<>> THEN <<>>
  ELSE IF IsAppend(Head(q))
       THEN <<Head(q).audio[2]>> \o Payloads(Tail(q))
       ELSE Payloads(Tail(q))

\* C20: a Buffer frame handled while the session's upstream is open appends
\* exactly one append message with that frame's bytes to what was sent
\* upstream, so that appends are in the order the frames arrived.
C20_OneAppendPerFrameInOrder ==
  /\ [][\A c \in Clients, k \in Contents :
          nMsgs' # nMsgs /\ UpstreamIsOpen(c) /\ ClientMessage(c, "Buffer", k)
          => toUp' = [toUp EXCEPT ![upstream[c]] =
                        Append(@, AppendAudio(FrameBytes))]]_vars
  /\ [](\A u \in Ups :
          \A i, j \in 1..Len(Payloads(toUp[u])) :
            i < j => Payloads(toUp[u])[i] < Payloads(toUp[u])[j])

\* a handler of session c runs: a client message, the client's close or
\* error, or a step of one of its setups or upstream sockets
EventOf(c) ==
  \/ \E t \in JsTypes, k \in Contents : ClientMessage(c, t, k)
  \/ ClientClose(c)
  \/ ClientError(c)
  \/ \E u \in Ups :
       /\ owner[u] = c
       /\ \/ MintOk(u) \/ MintFail(u)
          \/ UpstreamOpen(u) \/ UpstreamOpenFail(u)
          \/ UpstreamClose(u) \/ UpstreamError(u)

\* nothing of session d changes in the step
Untouched(d) ==
  /\ upstream'[d] = upstream[d]
  /\ cstate'[d] = cstate[d]
  /\ isAlive'[d] = isAlive[d]
  /\ toClient'[d] = toClient[d]
  /\ \A u \in Ups :
       (owner[u] = d \/ owner'[u] = d)
         => /\ owner'[u] = owner[u]
            /\ ustate'[u] = ustate[u]
            /\ toUp'[u] = toUp[u]

\* C18: with several sessions on one server, a message, setup step, setup
\* failure, close or error of one session changes nothing of any other
\* session: its upstream reference, its upstream sockets, its client
\* connection, its liveness flag and what was sent to it.
C18_SessionsIsolated ==
  [][\A d \in Sessions :
       Untouched(d) \/ \A c \in Sessions \ {d} : ~EventOf(c)]_vars

\* C18 witness: two sessions had an open upstream; one client closed and
\* its upstream is closing, the other session is still open
C18_Witness ==
  \E c, d \in Sessions :
    /\ c # d
    /\ cstate[c] = "CLOSED"
    /\ upstream[c] # 0 /\ ustate[upstream[c]] = "CLOSING"
    /\ cstate[d] = "OPEN"
    /\ UpstreamIsOpen(d)

\* C21: accepting a connection sends the connected acknowledgment as the
\* session's first message to the client, and leaves the session without an
\* upstream and with its liveness flag set; whatever the client is sent
\* later comes after the acknowledgment.
C21_ConnectedFirst ==
  /\ [](\A c \in Clients :
          /\ cstate[c] = "NONE" => toClient[c] = <<>>
          /\ cstate[c] # "NONE" =>
                toClient[c] # <<>> /\ toClient[c][1] = Connected)
  /\ [][\A c \in Clients :
          cstate[c] = "NONE" /\ Connect(c)
          => /\ toClient'[c] = <<Connected>>
             /\ upstream'[c] = 0
             /\ UpsOf(c)' = {}
             /\ isAlive'[c] = TRUE]_vars

\* C21 witness: a client was sent the acknowledgment and then an error event
C21_Witness ==
  \E c \in Clients :
    /\ Len(toClient[c]) >= 2
    /\ toClient[c][1] = Connected
    /\ "error" \in DOMAIN toClient[c][2]

\* the error codes of the client protocol
ErrorCodes == {"upstream_already_started", "upstream_setup_failed",
               "openai_connection_failed", "openai_error"}

IsErrorEvent(m) == "error" \in DOMAIN m

\* the message handler makes an error event only for an upstream event of
\* type error, and then with the code openai_error
TranslatorErrorCodes ==
  \A m \in AllUpEvents :
    \A i \in 1..Len(Translate(m)) :
      IsErrorEvent(Translate(m)[i])
        => m.json /\ m.type = ErrorType
           /\ Translate(m)[i].error = "openai_error"

\* C22: every error event sent to a client has one of the four codes, and
\* the step that sends it is the cause of its code: a start command with the
\* upstream open for upstream_already_started, a failed mint or open for
\* upstream_setup_failed, an error of an opened upstream for
\* openai_connection_failed, an upstream event of type error for
\* openai_error.
C22_ErrorCodesByCause ==
  /\ [](TranslatorErrorCodes)
  /\ [](\A c \in Clients : \A i \in 1..Len(toClient[c]) :
          IsErrorEvent(toClient[c][i]) => toClient[c][i].error \in ErrorCodes)
  /\ [][\A c \in Clients :
          (Len(toClient'[c]) > Len(toClient[c])
             /\ IsErrorEvent(toClient'[c][Len(toClient'[c])]))
          => LET code == toClient'[c][Len(toClient'[c])].error
             IN CASE code = "upstream_already_started" ->
                       /\ UpstreamIsOpen(c)
                       /\ \E t \in JsTypes :
                            /\ IsStartCommand(t, "start")
                            /\ ClientMessage(c, t, "start")
                  [] code = "upstream_setup_failed" ->
                       \E u \in Ups :
                         owner[u] = c /\ (MintFail(u) \/ UpstreamOpenFail(u))
                  [] code = "openai_connection_failed" ->
                       \E u \in Ups : owner[u] = c /\ UpstreamError(u)
                  [] code = "openai_error" ->
                       \E u \in Ups, m \in UpEvents :
                         /\ owner[u] = c /\ m.type = ErrorType
                         /\ UpstreamMessage(u, m)
                  [] OTHER -> FALSE]_vars

\* C22 witness: one client was sent two error events with different codes
C22_Witness ==
  \E c \in Clients :
    /\ Sent(c, SetupFailed(ErrMessage))
    /\ Sent(c, ConnFailed(ErrMessage))

\* C23: client.upstream goes from a socket to undefined only in the close
\* or error handler of that socket; the close or error of another upstream
\* of the client leaves the reference as it is.
C23_ClearedOnlyByOwnUpstream ==
  [][\A c \in Clients :
       (upstream[c] # 0 /\ upstream'[c] = 0)
       => UpstreamClose(upstream[c]) \/ UpstreamError(upstream[c])]_vars

\* C24: the liveness flag becomes true only in the connection handler and
\* the pong handler, and false only in a sweep; no client message of any
\* kind changes it, and a sweep terminates every client that has sent no
\* pong since the sweep before, whatever commands and audio it has sent.
C24_OnlyPongKeepsAlive ==
  /\ [][\A c \in Clients :
          isAlive'[c] # isAlive[c]
          => IF isAlive'[c] THEN Connect(c) \/ Pong(c) ELSE Heartbeat]_vars
  /\ [][\A c \in Clients, t \in JsTypes, k \in Contents :
          ClientMessage(c, t, k) => isAlive' = isAlive]_vars
  /\ [][\A c \in Clients :
          Heartbeat /\ InClients(c) /\ pongAt[c] < sweeps[c]
          => cstate'[c] = "DESTROYED"]_vars

\* C24 witness: a client whose audio was forwarded upstream and that never
\* sent a pong, terminated at its second sweep
C24_Witness ==
  \E c \in Clients :
    /\ cstate[c] = "DESTROYED"
    /\ sweeps[c] = 2
    /\ pongAt[c] = 0
    /\ \E u \in UpsOf(c) : Forwarded(u)

\* C25: over all the close and error events of all the upstreams of a
\* session, the close and error handlers close the client at most once and
\* send openai_connection_failed at most once: they close the client only
\* when they find it open, a closed client is never open again, and the
\* error event is never in what the client was sent twice.
C25_ClientClosedAndToldOnce ==
  /\ [](\A c \in Clients : \A i, j \in 1..Len(toClient[c]) :
          /\ toClient[c][i] = ConnFailed(ErrMessage)
          /\ toClient[c][j] = ConnFailed(ErrMessage)
          => i = j)
  /\ [][\A u \in Ups :
          UpstreamClose(u) \/ UpstreamError(u)
          => LET c == owner[u]
             IN /\ cstate'[c] # cstate[c]
                   => cstate[c] = "OPEN" /\ cstate'[c] = "CLOSING"
                /\ toClient'[c] # toClient[c]
                   => /\ cstate[c] = "OPEN" /\ cstate'[c] = "CLOSING"
                      /\ UpstreamError(u)
                      /\ toClient'[c] = Append(toClient[c], ConnFailed(ErrMessage))]_vars
  /\ [][\A c \in Clients :
          cstate[c] \notin {"NONE", "OPEN"} => cstate'[c] # "OPEN"]_vars

\* C25 witness: two upstreams of one client have both emitted 'error', one
\* of them 'close' as well, and the client was sent the error event
C25_Witness ==
  \E c \in Clients : \E u1, u2 \in UpsOf(c) :
    /\ u1 # u2
    /\ ustate[u1] = "CLOSED"
    /\ ustate[u2] = "ERRORED"
    /\ cstate[c] = "CLOSING"
    /\ Sent(c, ConnFailed(ErrMessage))

RECURSIVE Relayed(_)
Relayed(k) == IF k = 0 THEN <<>> ELSE Relayed(k - 1) \o Translate(tIn[k])

\* C27: what a client has been sent after the acknowledgment is, in the
\* order of the stream, the translations of a first part of the upstream
\* messages handled so far (all of them while the client is open): client
\* messages keep the order of the upstream messages they come from, and none
\* is sent before its upstream message was received.
C27_RelayKeepsOrder ==
  \A u \in Ups :
    owner[u] # 0
    => \E k \in 0..nUpMsgs :
         /\ toClient[owner[u]] = <<Connected>> \o Relayed(k)
         /\ cstate[owner[u]] = "OPEN" => k = nUpMsgs

\* C27 witness: a partial and then a final were relayed, in that order
C27_Witness ==
  \E c \in Clients :
    /\ nUpMsgs = 2
    /\ tIn[1].type = DeltaType /\ tIn[2].type = CompletedType
    /\ toClient[c] = <<Connected>> \o Translate(tIn[1]) \o Translate(tIn[2])
    /\ Len(toClient[c]) = 3

\* C28: one sweep does exactly one of two things to each connection of
\* wss.clients.  A connection whose flag is false is terminated and is sent
\* nothing; a connection whose flag is true stays as it is, has its flag
\* cleared and is pinged once (ping() on a connection that is already
\* closing is discarded by the library).  A connection outside wss.clients
\* is left alone.
C28_TerminateOrPing ==
  [][Heartbeat
     => \A c \in Clients :
          IF ~InClients(c)
          THEN /\ cstate'[c] = cstate[c]
               /\ isAlive'[c] = isAlive[c]
               /\ toClient'[c] = toClient[c]
          ELSE IF isAlive[c] = FALSE
          THEN /\ cstate'[c] = "DESTROYED"
               /\ toClient'[c] = toClient[c]
          ELSE /\ cstate'[c] = cstate[c]
               /\ isAlive'[c] = FALSE
               /\ toClient'[c] = IF ReadyState(cstate[c]) = "OPEN"
                                 THEN Append(toClient[c], Ping)
                                 ELSE toClient[c]]_vars

\* C28 witness: a client pinged by its first sweep and terminated, without
\* another ping, by its second
C28_Witness ==
  \E c \in Clients :
    /\ toClient[c] = <<Connected, Ping>>
    /\ cstate[c] = "DESTROYED"
    /\ isAlive[c] = FALSE
    /\ sweeps[c] = 2

====
